---- MODULE Spec2Model ----
(***************************************************************************)
(* Model of the two programs of the repository:                           *)
(*   src/idea_chamber.C                       readTransferFunction, main  *)
(*   src/gas_generation/generate_he_ic4h10.C  main (gas table generator)  *)
(*                                                                         *)
(* Real numbers (times, amplitudes) are modelled by exact integers; an     *)
(* electron is identified by its position <<cluster, index>> in the list   *)
(* of clusters returned by TrackHeed.                                      *)
(***************************************************************************)
EXTENDS Integers, Sequences, FiniteSets, TLC

VARIABLES
  file,               \* mdt_elx_delta.txt: [opens, lines, nl]
  stream,             \* std::ifstream infile: [pos, eof, fail]
  times, values,      \* the local vectors of readTransferFunction
  tf,                 \* the sensor's transfer function: [set, times, values]
  rtfRet,             \* return value of readTransferFunction: "none", "true", "false"
  pc,                 \* position of main in idea_chamber.C
  nTracks, j,         \* loop bound and loop counter of the track loop
  clusters,           \* track.GetClusters(): the electron count of each cluster
  totalElectrons, processedElectrons,
  ci, ei,             \* position of the two range-for loops (cluster, electron)
  calls,              \* library calls made since the sensor's signal was last cleared
  out,                \* lines printed since the last "=== Starting Track" banner
  lastDrift,          \* outcome of the latest DriftElectron call
  nConv,              \* convolutions applied to the signal since it was last cleared
  found,              \* return value of ComputeThresholdCrossings: "none", "true", "false"
  exitCode,           \* exit code of idea_chamber's main; -1 while running
  gpc,                \* position of the generator's main
  gasFile,            \* he_90_ic4h10_10_1atm.gas on disk: [exists, version, rows]
  reader              \* what a concurrent reader of the gas file last loaded

chamberVars == <<file, stream, times, values, tf, rtfRet, pc, nTracks, j, clusters,
                 totalElectrons, processedElectrons, ci, ei, calls, out, lastDrift,
                 nConv, found, exitCode>>
gasVars == <<gpc, gasFile, reader>>
vars == <<file, stream, times, values, tf, rtfRet, pc, nTracks, j, clusters,
          totalElectrons, processedElectrons, ci, ei, calls, out, lastDrift,
          nConv, found, exitCode, gpc, gasFile, reader>>

(***************************************************************************)
(* Bounds of the model.                                                    *)
(***************************************************************************)
MaxLines == 3
MaxTime == 2
MaxTracks == 2
MaxClusters == 2

(***************************************************************************)
(* Program constants.                                                      *)
(***************************************************************************)
maxElectrons == 200
progressEvery == 50
nE == 15

Min(a, b) == IF a < b THEN a ELSE b

RECURSIVE Flatten(_)
Flatten(ss) == IF ss = <<>> THEN <<>> ELSE Head(ss) \o Flatten(Tail(ss))

RECURSIVE SumSeq(_)
SumSeq(s) == IF s = <<>> THEN 0 ELSE Head(s) + SumSeq(Tail(s))

SeqsUpTo(S, n) == UNION {[1..k -> S] : k \in 0..n}

(***************************************************************************)
(* The transfer-function file: lines of whitespace-separated tokens.  A    *)
(* token either parses as a double (ok, with value v) or does not.         *)
(***************************************************************************)
Num(v) == [ok |-> TRUE, v |-> v]
Bad == [ok |-> FALSE, v |-> 0]
TimeVals == 1..MaxTime
AmpVals == {-5, 7}
PairLines == {<<Num(t), Num(f)>> : t \in TimeVals, f \in AmpVals}
MalformedLines == {<<Bad>>} \cup {<<Num(t)>> : t \in TimeVals}
LineShapes == PairLines \cup MalformedLines \cup {<<>>}

Unopenable == [opens |-> FALSE, lines |-> <<>>, nl |-> FALSE]
Files(shapes, n) ==
  {[opens |-> TRUE, lines |-> ls, nl |-> e] : ls \in SeqsUpTo(shapes, n), e \in BOOLEAN}
    \cup {Unopenable}

Tokens == Flatten(file.lines)

\* The last token is the last character of the file: no newline or blank
\* line follows it.
EndsAtToken ==
  /\ Len(file.lines) > 0
  /\ file.lines[Len(file.lines)] # <<>>
  /\ ~file.nl

(***************************************************************************)
(* operator>>(double&) on the stream s.  A stream that is not good() only  *)
(* gets failbit; at the end of the input eofbit and failbit are set; a     *)
(* token that does not parse sets failbit; a token that parses is          *)
(* consumed, and eofbit is set when the parse ran into the end of file.    *)
(***************************************************************************)
Extract(s) ==
  IF s.eof \/ s.fail
    THEN [s |-> [s EXCEPT !.fail = TRUE], v |-> 0]
  ELSE IF s.pos > Len(Tokens)
    THEN [s |-> [s EXCEPT !.eof = TRUE, !.fail = TRUE], v |-> 0]
  ELSE IF ~Tokens[s.pos].ok
    THEN [s |-> [s EXCEPT !.fail = TRUE], v |-> 0]
  ELSE [s |-> [pos |-> s.pos + 1,
               eof |-> (s.pos = Len(Tokens) /\ EndsAtToken),
               fail |-> FALSE],
        v |-> Tokens[s.pos].v]

\* 1.e3 * t
RescaleUnscaled(t) == t
Rescale(t) == 1000 * t

Line(m, a, b) == [msg |-> m, a |-> a, b |-> b]
Call(o) == [op |-> o, c |-> 0, e |-> 0]
DriftCall(c, e) == [op |-> "DriftElectron", c |-> c, e |-> e]
DriftOutcomes == {"collected", "lost", "diverged"}

(***************************************************************************)
(* readTransferFunction                                                    *)
(***************************************************************************)
RTF_Open ==
  /\ pc = "rtf_open"
  /\ IF ~file.opens
       THEN /\ out' = Append(out, Line("CouldNotRead", 0, 0))
            /\ rtfRet' = "false"
            /\ pc' = "main125"
       ELSE /\ pc' = "rtf_loop"
            /\ UNCHANGED <<out, rtfRet>>
  /\ UNCHANGED <<file, stream, times, values, tf, nTracks, j, clusters,
                 totalElectrons, processedElectrons, ci, ei, calls, lastDrift,
                 nConv, found, exitCode, gasVars>>

\* One iteration of the while loop that reaches the two push_back calls.
RTF_ReadPush ==
  /\ pc = "rtf_loop"
  /\ ~stream.eof
  /\ LET rt == Extract(stream)
         rf == Extract(rt.s)
     IN /\ ~(rf.s.eof \/ rf.s.fail)
        /\ stream' = rf.s
        /\ times' = Append(times, Rescale(rt.v))
        /\ values' = Append(values, rf.v)
  /\ UNCHANGED <<file, tf, rtfRet, pc, nTracks, j, clusters, totalElectrons,
                 processedElectrons, ci, ei, calls, out, lastDrift, nConv,
                 found, exitCode, gasVars>>

\* One iteration of the while loop that leaves it by the break.
RTF_ReadBreak ==
  /\ pc = "rtf_loop"
  /\ ~stream.eof
  /\ LET rt == Extract(stream)
         rf == Extract(rt.s)
     IN /\ rf.s.eof \/ rf.s.fail
        /\ stream' = rf.s
  /\ pc' = "rtf_finish"
  /\ UNCHANGED <<file, times, values, tf, rtfRet, nTracks, j, clusters,
                 totalElectrons, processedElectrons, ci, ei, calls, out, lastDrift,
                 nConv, found, exitCode, gasVars>>

\* infile.close(); sensor.SetTransferFunction(times, values); return true
RTF_Finish ==
  /\ pc = "rtf_finish"
  /\ tf' = [set |-> TRUE, times |-> times, values |-> values]
  /\ rtfRet' = "true"
  /\ pc' = "main125"
  /\ UNCHANGED <<file, stream, times, values, nTracks, j, clusters, totalElectrons,
                 processedElectrons, ci, ei, calls, out, lastDrift, nConv,
                 found, exitCode, gasVars>>

(***************************************************************************)
(* main of idea_chamber.C                                                  *)
(***************************************************************************)
\* if (!readTransferFunction(sensor)) return 0;
Main_CheckTransferFunctionIgnored ==
  /\ pc = "main125"
  /\ pc' = "clear0"
  /\ UNCHANGED <<file, stream, times, values, tf, rtfRet, nTracks, j, clusters,
                 totalElectrons, processedElectrons, ci, ei, calls, out, lastDrift,
                 nConv, found, exitCode, gasVars>>

Main_CheckTransferFunction ==
  /\ pc = "main125"
  /\ IF rtfRet = "false"
       THEN /\ exitCode' = 0
            /\ pc' = "exit"
       ELSE /\ pc' = "clear0"
            /\ UNCHANGED exitCode
  /\ UNCHANGED <<file, stream, times, values, tf, rtfRet, nTracks, j, clusters,
                 totalElectrons, processedElectrons, ci, ei, calls, out, lastDrift,
                 nConv, found, gasVars>>

\* sensor.ClearSignal(); followed by the Heed, RKF and canvas set-up
Main_ClearSignal ==
  /\ pc = "clear0"
  /\ calls' = <<Call("ClearSignal")>>
  /\ j' = 0
  /\ pc' = "loop"
  /\ nConv' = 0
  /\ UNCHANGED <<file, stream, times, values, tf, rtfRet, nTracks, clusters,
                 totalElectrons, processedElectrons, ci, ei, out, lastDrift,
                 found, exitCode, gasVars>>

\* j < nTracks, and the head of the loop body: the banner and ClearSignal
Main_TrackStartNoClear ==
  /\ pc = "loop"
  /\ j < nTracks
  /\ out' = <<>>
  /\ clusters' = <<>>
  /\ totalElectrons' = 0
  /\ processedElectrons' = 0
  /\ ci' = 1
  /\ ei' = 1
  /\ lastDrift' = "none"
  /\ found' = "none"
  /\ pc' = "newTrack"
  /\ UNCHANGED <<file, stream, times, values, tf, rtfRet, nTracks, j, calls, nConv,
                 exitCode, gasVars>>

Main_TrackStart ==
  /\ pc = "loop"
  /\ j < nTracks
  /\ out' = <<>>
  /\ calls' = <<Call("ClearSignal")>>
  /\ clusters' = <<>>
  /\ totalElectrons' = 0
  /\ processedElectrons' = 0
  /\ ci' = 1
  /\ ei' = 1
  /\ lastDrift' = "none"
  /\ nConv' = 0
  /\ found' = "none"
  /\ pc' = "newTrack"
  /\ UNCHANGED <<file, stream, times, values, tf, rtfRet, nTracks, j, exitCode,
                 gasVars>>

\* the loop ends; app.Run(kTRUE) returns and main falls off its end
Main_Run ==
  /\ pc = "loop"
  /\ ~(j < nTracks)
  /\ exitCode' = 0
  /\ pc' = "exit"
  /\ UNCHANGED <<file, stream, times, values, tf, rtfRet, nTracks, j, clusters,
                 totalElectrons, processedElectrons, ci, ei, calls, out, lastDrift,
                 nConv, found, gasVars>>

\* track.NewTrack(x0, y0, 0, 0, 0, 1, 0)
Main_NewTrack ==
  /\ pc = "newTrack"
  /\ calls' = Append(calls, Call("NewTrack"))
  /\ pc' = "getClusters"
  /\ UNCHANGED <<file, stream, times, values, tf, rtfRet, nTracks, j, clusters,
                 totalElectrons, processedElectrons, ci, ei, out, lastDrift,
                 nConv, found, exitCode, gasVars>>

ClusterSizes == {0, 1, maxElectrons - 1, maxElectrons}

\* auto clusters = track.GetClusters(); and the count of their electrons
Main_GetClusters ==
  /\ pc = "getClusters"
  /\ \E cs \in SeqsUpTo(ClusterSizes, MaxClusters) :
       /\ clusters' = cs
       /\ totalElectrons' = SumSeq(cs)
       /\ out' = Append(out, Line("TotalElectrons", SumSeq(cs), 0))
  /\ calls' = Append(calls, Call("GetClusters"))
  /\ pc' = "checkEmpty"
  /\ UNCHANGED <<file, stream, times, values, tf, rtfRet, nTracks, j,
                 processedElectrons, ci, ei, lastDrift, nConv, found,
                 exitCode, gasVars>>

\* if (totalElectrons == 0) { warning; continue; } else the banner and
\* processedElectrons = 0
Main_CheckEmpty ==
  /\ pc = "checkEmpty"
  /\ IF totalElectrons = 0
       THEN /\ out' = Append(out, Line("NoElectrons", 0, 0))
            /\ j' = j + 1
            /\ pc' = "loop"
            /\ UNCHANGED processedElectrons
       ELSE /\ out' = Append(out, Line("Processing", maxElectrons, 0))
            /\ processedElectrons' = 0
            /\ pc' = "electrons"
            /\ UNCHANGED j
  /\ UNCHANGED <<file, stream, times, values, tf, rtfRet, nTracks, clusters,
                 totalElectrons, ci, ei, calls, lastDrift, nConv, found,
                 exitCode, gasVars>>

\* processedElectrons >= maxElectrons
CapReachedOffByOne == processedElectrons > maxElectrons
CapReached == processedElectrons >= maxElectrons

\* where the loop goes after DriftElectron returned r: its result is not read
AfterDriftAbortOnFailure(r) == IF r = "collected" THEN "electrons" ELSE "allProcessed"
AfterDrift(r) == "electrons"

\* the outer range-for has run out of clusters
Loop_OuterEnd ==
  /\ pc = "electrons"
  /\ ci > Len(clusters)
  /\ pc' = "allProcessed"
  /\ UNCHANGED <<file, stream, times, values, tf, rtfRet, nTracks, j, clusters,
                 totalElectrons, processedElectrons, ci, ei, calls, out, lastDrift,
                 nConv, found, exitCode, gasVars>>

\* the inner range-for has run out of electrons; then the outer break test
Loop_InnerEnd ==
  /\ pc = "electrons"
  /\ ci <= Len(clusters)
  /\ ei > clusters[ci]
  /\ IF CapReached
       THEN /\ pc' = "allProcessed"
            /\ UNCHANGED <<ci, ei>>
       ELSE /\ ci' = ci + 1
            /\ ei' = 1
            /\ UNCHANGED pc
  /\ UNCHANGED <<file, stream, times, values, tf, rtfRet, nTracks, j, clusters,
                 totalElectrons, processedElectrons, calls, out, lastDrift,
                 nConv, found, exitCode, gasVars>>

\* the inner break, which the outer break test then follows
Loop_InnerBreak ==
  /\ pc = "electrons"
  /\ ci <= Len(clusters)
  /\ ei <= clusters[ci]
  /\ CapReached
  /\ pc' = "allProcessed"
  /\ UNCHANGED <<file, stream, times, values, tf, rtfRet, nTracks, j, clusters,
                 totalElectrons, processedElectrons, ci, ei, calls, out, lastDrift,
                 nConv, found, exitCode, gasVars>>

\* one electron: count it, print the progress, drift it
Loop_Drift ==
  /\ pc = "electrons"
  /\ ci <= Len(clusters)
  /\ ei <= clusters[ci]
  /\ ~CapReached
  /\ processedElectrons' = processedElectrons + 1
  /\ out' = IF (processedElectrons + 1) % progressEvery = 0
              THEN Append(out, Line("Processed", processedElectrons + 1,
                                    Min(totalElectrons, maxElectrons)))
              ELSE out
  /\ calls' = Append(calls, DriftCall(ci, ei))
  /\ \E r \in DriftOutcomes :
       /\ lastDrift' = r
       /\ pc' = AfterDrift(r)
  /\ ei' = ei + 1
  /\ UNCHANGED <<file, stream, times, values, tf, rtfRet, nTracks, j, clusters,
                 totalElectrons, ci, nConv, found, exitCode, gasVars>>

\* "All electrons processed." and the drift-line plot
Main_AllProcessed ==
  /\ pc = "allProcessed"
  /\ out' = Append(out, Line("AllProcessed", 0, 0))
  /\ pc' = "convolute"
  /\ UNCHANGED <<file, stream, times, values, tf, rtfRet, nTracks, j, clusters,
                 totalElectrons, processedElectrons, ci, ei, calls, lastDrift,
                 nConv, found, exitCode, gasVars>>

\* sensor.ConvoluteSignals()
Main_ConvoluteSkipped ==
  /\ pc = "convolute"
  /\ pc' = "threshold"
  /\ UNCHANGED <<file, stream, times, values, tf, rtfRet, nTracks, j, clusters,
                 totalElectrons, processedElectrons, ci, ei, calls, out, lastDrift,
                 nConv, found, exitCode, gasVars>>

Main_Convolute ==
  /\ pc = "convolute"
  /\ calls' = Append(calls, Call("ConvoluteSignals"))
  /\ pc' = "threshold"
  /\ nConv' = nConv + 1
  /\ UNCHANGED <<file, stream, times, values, tf, rtfRet, nTracks, j, clusters,
                 totalElectrons, processedElectrons, ci, ei, out, lastDrift,
                 found, exitCode, gasVars>>

\* if (!sensor.ComputeThresholdCrossings(-2., "s", nt)) continue;
Main_Threshold ==
  /\ pc = "threshold"
  /\ calls' = Append(calls, Call("ComputeThresholdCrossings"))
  /\ \E r \in BOOLEAN :
       IF r THEN /\ found' = "true"
                 /\ pc' = "plotSignal"
                 /\ UNCHANGED j
            ELSE /\ found' = "false"
                 /\ j' = j + 1
                 /\ pc' = "loop"
  /\ UNCHANGED <<file, stream, times, values, tf, rtfRet, nTracks, clusters,
                 totalElectrons, processedElectrons, ci, ei, out, lastDrift,
                 nConv, exitCode, gasVars>>

\* if (plotSignal) sensor.PlotSignal("s", cS); and ++j
Main_PlotSignal ==
  /\ pc = "plotSignal"
  /\ calls' = Append(calls, Call("PlotSignal"))
  /\ j' = j + 1
  /\ pc' = "loop"
  /\ UNCHANGED <<file, stream, times, values, tf, rtfRet, nTracks, clusters,
                 totalElectrons, processedElectrons, ci, ei, out, lastDrift,
                 nConv, found, exitCode, gasVars>>

(***************************************************************************)
(* main of generate_he_ic4h10.C, and a concurrent reader of its gas file.  *)
(* The generator hands the final file name to WriteGasFile: there is no    *)
(* temporary file and no rename, so the table is written in place, one     *)
(* field point after the other.                                            *)
(***************************************************************************)
NoGasFile == [exists |-> FALSE, version |-> "none", rows |-> 0]
OldGasFile == [exists |-> TRUE, version |-> "old", rows |-> nE]
NothingLoaded == [loaded |-> FALSE, version |-> "none", rows |-> 0]

\* the MediumMagboltz set-up: composition, temperature, pressure, field grid
Gen_Setup ==
  /\ gpc = "setup"
  /\ gpc' = "generate"
  /\ UNCHANGED <<gasFile, reader, chamberVars>>

\* gas.GenerateGasTable(ncoll)
Gen_GenerateGasTable ==
  /\ gpc = "generate"
  /\ gpc' = "write_open"
  /\ UNCHANGED <<gasFile, reader, chamberVars>>

\* gas.WriteGasFile(filename): the file of that name is opened for writing
Gen_WriteOpen ==
  /\ gpc = "write_open"
  /\ gasFile' = [exists |-> TRUE, version |-> "new", rows |-> 0]
  /\ gpc' = "write_rows"
  /\ UNCHANGED <<reader, chamberVars>>

\* gas.WriteGasFile(filename): the next field point's row is written
Gen_WriteRow ==
  /\ gpc = "write_rows"
  /\ gasFile.rows < nE
  /\ gasFile' = [gasFile EXCEPT !.rows = @ + 1]
  /\ UNCHANGED <<gpc, reader, chamberVars>>

\* gas.WriteGasFile(filename) returns
Gen_WriteClose ==
  /\ gpc = "write_rows"
  /\ gasFile.rows = nE
  /\ gpc' = "summary"
  /\ UNCHANGED <<gasFile, reader, chamberVars>>

\* "Gas file saved as", PrintGas, the sample transport properties, return 0
Gen_Summary ==
  /\ gpc = "summary"
  /\ gpc' = "exit"
  /\ UNCHANGED <<gasFile, reader, chamberVars>>

\* another process loads the gas file as it is on disk
Reader_Load ==
  /\ gasFile.exists
  /\ reader' = [loaded |-> TRUE, version |-> gasFile.version, rows |-> gasFile.rows]
  /\ UNCHANGED <<gpc, gasFile, chamberVars>>

(***************************************************************************)
(* Specifications                                                          *)
(***************************************************************************)
OnePairFile == [opens |-> TRUE, lines |-> <<<<Num(1), Num(7)>>>>, nl |-> TRUE]
EmptyFile == [opens |-> TRUE, lines |-> <<>>, nl |-> FALSE]
SmallFiles == {Unopenable, EmptyFile, OnePairFile}

InitChamber(F, T) ==
  /\ file \in F
  /\ stream = [pos |-> 1, eof |-> FALSE, fail |-> FALSE]
  /\ times = <<>>
  /\ values = <<>>
  /\ tf = [set |-> FALSE, times |-> <<>>, values |-> <<>>]
  /\ rtfRet = "none"
  /\ pc = "rtf_open"
  /\ nTracks \in T
  /\ j = 0
  /\ clusters = <<>>
  /\ totalElectrons = 0
  /\ processedElectrons = 0
  /\ ci = 1
  /\ ei = 1
  /\ calls = <<>>
  /\ out = <<>>
  /\ lastDrift = "none"
  /\ nConv = 0
  /\ found = "none"
  /\ exitCode = -1

InitGasIdle ==
  /\ gpc = "setup"
  /\ gasFile = NoGasFile
  /\ reader = NothingLoaded

\* idea_chamber: the whole run, on a small set of transfer-function files
Init == InitChamber(SmallFiles, 0..MaxTracks) /\ InitGasIdle

Next ==
  \/ RTF_Open
  \/ RTF_ReadPush
  \/ RTF_ReadBreak
  \/ RTF_Finish
  \/ Main_CheckTransferFunction
  \/ Main_ClearSignal
  \/ Main_TrackStart
  \/ Main_Run
  \/ Main_NewTrack
  \/ Main_GetClusters
  \/ Main_CheckEmpty
  \/ Loop_OuterEnd
  \/ Loop_InnerEnd
  \/ Loop_InnerBreak
  \/ Loop_Drift
  \/ Main_AllProcessed
  \/ Main_Convolute
  \/ Main_Threshold
  \/ Main_PlotSignal

Spec == Init /\ [][Next]_vars

\* readTransferFunction on every file within the bounds
InitTF == InitChamber(Files(LineShapes, MaxLines), {1}) /\ InitGasIdle

NextTF ==
  \/ RTF_Open
  \/ RTF_ReadPush
  \/ RTF_ReadBreak
  \/ RTF_Finish

SpecTF == InitTF /\ [][NextTF]_vars

\* the gas-table generator beside a concurrent reader
InitGas ==
  /\ InitChamber({Unopenable}, {1})
  /\ gpc = "setup"
  /\ gasFile \in {NoGasFile, OldGasFile}
  /\ reader = NothingLoaded

NextGas ==
  \/ Gen_Setup
  \/ Gen_GenerateGasTable
  \/ Gen_WriteOpen
  \/ Gen_WriteRow
  \/ Gen_WriteClose
  \/ Gen_Summary
  \/ Reader_Load

SpecGas == InitGas /\ [][NextGas]_vars

(***************************************************************************)
(* Vocabulary of the properties                                            *)
(***************************************************************************)
Count(o) == Cardinality({i \in 1..Len(calls) : calls[i].op = o})
Drifts == SelectSeq(calls, LAMBDA x : x.op = "DriftElectron")
StageRank(o) ==
  CASE o = "ClearSignal" -> 1
    [] o = "NewTrack" -> 2
    [] o = "GetClusters" -> 3
    [] o = "DriftElectron" -> 4
    [] o = "ConvoluteSignals" -> 5
    [] o = "ComputeThresholdCrossings" -> 6
    [] o = "PlotSignal" -> 7
\* the track of the current loop iteration has left the electron loop
PastElectronLoop == pc \in {"allProcessed", "convolute", "threshold", "plotSignal"}
\* a track that had electrons has just ended (by continue or at the end of the body)
TrackWithElectronsEnded == pc \in {"loop", "exit"} /\ totalElectrons > 0
\* the electron that follows electron <<c, e>> in cluster order, then in-cluster order
FollowsInOrder(a, b) ==
  \/ b.c = a.c /\ b.e = a.e + 1
  \/ /\ a.c < b.c
     /\ a.e = clusters[a.c]
     /\ b.e = 1
     /\ \A m \in (a.c + 1)..(b.c - 1) : clusters[m] = 0
IsFirstElectron(a) ==
  /\ a.e = 1
  /\ a.c \in 1..Len(clusters)
  /\ clusters[a.c] >= 1
  /\ \A m \in 1..(a.c - 1) : clusters[m] = 0
StrictlyIncreasing(s) == \A k \in 1..(Len(s) - 1) : s[k] < s[k + 1]
ProgressLines(n, d) == [k \in 1..(n \div progressEvery) |-> Line("Processed", k * progressEvery, d)]

(* C1: between one ClearSignal and the next (or the end of the program),  *)
(* ConvoluteSignals is applied to the accumulated signal at most once,    *)
(* whatever the number of tracks.                                         *)
C1_ConvoluteOncePerBuffer == nConv <= 1

\* a later track convolves its own, freshly cleared, signal
C1_Witness == j >= 1 /\ pc = "threshold" /\ nConv = 1

(* C2: ConvoluteSignals is reached only after readTransferFunction has    *)
(* called SetTransferFunction and returned true; when the file cannot be  *)
(* opened the run stops at once, with no NewTrack, DriftElectron,         *)
(* ConvoluteSignals or ComputeThresholdCrossings.                         *)
C2_ConvolutionNeedsTransferFunction ==
  /\ (pc = "convolute" \/ nConv > 0) => (tf.set /\ rtfRet = "true")
  /\ ~file.opens => /\ pc \in {"rtf_open", "main125", "exit"}
                    /\ calls = <<>>
                    /\ nConv = 0
                    /\ ~tf.set

C2_Witness == nConv = 1 /\ tf.set /\ Len(tf.times) = 1

(* C3: when the transfer-function file cannot be opened, main ends with a *)
(* non-zero exit code.                                                    *)
C3_NonZeroExitOnFailure == (pc = "exit" /\ rtfRet = "false") => exitCode # 0

(* C4: a malformed line is skipped and does not abort the load: every     *)
(* well-formed (time, amplitude) line of the file is loaded, those after  *)
(* a malformed line included, and readTransferFunction returns true.      *)
C4_MalformedLinesSkipped ==
  (pc = "main125" /\ file.opens) =>
     /\ rtfRet = "true"
     /\ \A i \in 1..Len(file.lines) :
          file.lines[i] \in PairLines =>
            \E k \in 1..Len(tf.times) :
               /\ tf.times[k] = 1000 * file.lines[i][1].v
               /\ tf.values[k] = file.lines[i][2].v

(* C5: whatever DriftElectron returns (collected, lost, diverged), the    *)
(* loop goes on to every remaining electron up to the cap, the track goes *)
(* on to convolution and threshold detection, and the run goes on to the  *)
(* remaining tracks.                                                      *)
C5_DriftFailureNeverAborts ==
  /\ PastElectronLoop => Len(calls) = 3 + Min(totalElectrons, maxElectrons)
                                        + (IF pc \in {"threshold", "plotSignal"} THEN 1 ELSE 0)
                                        + (IF pc = "plotSignal" THEN 1 ELSE 0)
  /\ TrackWithElectronsEnded =>
       /\ Len(Drifts) = Min(totalElectrons, maxElectrons)
       /\ Count("ConvoluteSignals") = 1
       /\ Count("ComputeThresholdCrossings") = 1
  /\ (pc = "exit" /\ rtfRet = "true") => j = nTracks

\* the last electron of a track diverged, and the track was still convolved
\* and searched for a crossing
C5_Witness ==
  /\ TrackWithElectronsEnded
  /\ lastDrift = "diverged"
  /\ Count("ComputeThresholdCrossings") = 1

(* C6: a concurrent reader of he_90_ic4h10_10_1atm.gas never loads a      *)
(* partially written table: it sees the complete old table or the         *)
(* complete new one.                                                      *)
C6_AtomicReplace == reader.loaded => reader.rows = nE

(* C8: in a track that has electrons the stages come in order:            *)
(* ClearSignal, NewTrack and GetClusters, the DriftElectron calls, one    *)
(* ConvoluteSignals, one ComputeThresholdCrossings; no electron is        *)
(* drifted after the convolution and no threshold is searched on a signal *)
(* that was not convolved.                                                *)
C8_StageOrder ==
  /\ Len(calls) >= 1 => calls[1].op = "ClearSignal"
  /\ pc = "electrons" =>
       /\ Len(calls) >= 3
       /\ calls[2].op = "NewTrack"
       /\ calls[3].op = "GetClusters"
       /\ calls[Len(calls)].op \in {"GetClusters", "DriftElectron"}
       /\ nConv = 0
  /\ pc # "electrons" =>
       /\ \A i \in 1..(Len(calls) - 1) :
            /\ StageRank(calls[i].op) <= StageRank(calls[i + 1].op)
            /\ calls[i].op # "DriftElectron" =>
                 StageRank(calls[i].op) < StageRank(calls[i + 1].op)
       /\ Count("ComputeThresholdCrossings") > 0 =>
            (Count("ConvoluteSignals") = 1 /\ nConv = 1)
  /\ TrackWithElectronsEnded =>
       /\ calls[2].op = "NewTrack"
       /\ calls[3].op = "GetClusters"
       /\ Len(Drifts) >= 1
       /\ Count("ConvoluteSignals") = 1
       /\ Count("ComputeThresholdCrossings") = 1

C8_Witness ==
  /\ TrackWithElectronsEnded
  /\ found = "true"
  /\ calls[Len(calls)].op = "PlotSignal"
  /\ Len(clusters) = 2

(* C9: the electron loop has a hard cap of 200: a track makes             *)
(* min(totalElectrons, 200) DriftElectron calls, for the first electrons  *)
(* in cluster order and then in-cluster order; processedElectrons never   *)
(* exceeds 200; and nothing printed says that electrons were dropped: the *)
(* lines of a track are the total, the fixed banner, the progress lines   *)
(* and "All electrons processed."                                         *)
C9_ElectronCap ==
  /\ processedElectrons <= maxElectrons
  /\ pc = "electrons" => Len(calls) = 3 + processedElectrons
  /\ (pc \in {"loop", "exit"} /\ totalElectrons = 0) => Count("DriftElectron") = 0
  /\ (PastElectronLoop \/ TrackWithElectronsEnded) =>
       LET d == Drifts
           n == Min(totalElectrons, maxElectrons)
       IN /\ Len(d) = n
          /\ processedElectrons = n
          /\ IsFirstElectron(d[1])
          /\ \A i \in 1..(n - 1) : FollowsInOrder(d[i], d[i + 1])
          /\ \A i \in 1..n : d[i].e <= clusters[d[i].c]
          /\ out = <<Line("TotalElectrons", totalElectrons, 0),
                     Line("Processing", maxElectrons, 0)>>
                   \o ProgressLines(n, n)
                   \o (IF pc = "allProcessed" THEN <<>> ELSE <<Line("AllProcessed", 0, 0)>>)

\* a track with more than 200 electrons was cut in the middle of a cluster
C9_Witness ==
  /\ pc = "convolute"
  /\ totalElectrons > maxElectrons
  /\ ei <= clusters[ci]
  /\ ei > 1

(* C10 (as amended): readTransferFunction passes two sequences of equal   *)
(* length whose k-th entries are the k-th pair of tokens of the file, the *)
(* time multiplied by 1000 and the amplitude unchanged, in file order;    *)
(* the order of the times is not checked, so the passed times are         *)
(* strictly increasing only if those of the file are.                     *)
C10_PairsPassedInFileOrder ==
  /\ Len(times) = Len(values)
  /\ \A k \in 1..Len(times) :
       /\ 2 * k <= Len(Tokens)
       /\ Tokens[2 * k - 1].ok
       /\ Tokens[2 * k].ok
       /\ times[k] = 1000 * Tokens[2 * k - 1].v
       /\ values[k] = Tokens[2 * k].v
  /\ tf.set =>
       /\ tf.times = times
       /\ tf.values = values
       /\ StrictlyIncreasing(tf.times) =>
            \A k \in 1..(Len(times) - 1) : Tokens[2 * k - 1].v < Tokens[2 * k + 1].v

\* a file whose times go down is passed on as it is
C10_Witness ==
  /\ tf.set
  /\ Len(tf.times) = 2
  /\ tf.times[1] > tf.times[2]

(* C10 as stated: the times passed to SetTransferFunction are strictly    *)
(* increasing after the rescaling.                                        *)
C10_TimesStrictlyIncreasing ==
  tf.set => (Len(tf.times) = Len(tf.values) /\ StrictlyIncreasing(tf.times))

====
